---- MODULE Spec2Model ----
(***************************************************************************)
(* mqtt-dbus-notify: a bridge from MQTT topics to D-Bus desktop            *)
(* notifications.  The model follows the complete program, the Go source   *)
(* that README.md carries in its lines 120-430; main.go holds three older  *)
(* variants of it (lines 1-257, 259-427 and 429-644).                      *)
(*                                                                         *)
(* Text (payloads, titles, bodies) is a sequence of characters; a topic or *)
(* topic filter is the sequence of its "/"-separated levels, the empty     *)
(* topic "" being the empty sequence; a template source is a sequence of   *)
(* template tokens.                                                        *)
(***************************************************************************)
EXTENDS Naturals, Integers, Sequences, FiniteSets, TLC

VARIABLES
    pc,           \* position of the main goroutine
    config,       \* global `config`
    cfgFile,      \* history: the fields of the configuration file loadConfig read
    dbusConn,     \* global `dbusConn`: "nil", "open" or "closed"
    mqttClient,   \* global `mqttClient`: "nil" or "created"
    opts,         \* the client options connectMQTT built the client from
    status,       \* connection status of the paho client
    brokerSubs,   \* topic filters the broker holds for this client's session
    routes,       \* the paho client's router: <<[topic, rule]>> in registration order
    subscribed,   \* global `subscribed`
    i,            \* index of the subscribe loop
    j,            \* index of the unsubscribe loop
    defers,       \* run's deferred calls, next to run first
    err,          \* the error run returns
    exitStatus,   \* -1 while the process lives, then its exit status
    calls,        \* history: the Subscribe calls issued, with their results
    events,       \* history: connects, subscribes, unsubscribes, disconnects in order
    msg,          \* the message being dispatched by the client's router
    pending,      \* rule indices whose callbacks still have to run for msg
    notified,     \* history: the Notify calls made for msg
    tplEvals,     \* history: template() invocations made for msg
    parsed,       \* history: the <<rule, template>> pairs t.Parse was called for
    failedBefore, \* history: a template or a Notify call failed for an earlier message
    dispatched,   \* history: number of callbacks the router found for msg
    reconnected,  \* history: the client reconnected after a connection loss
    closeCalls,   \* history: number of dbusConn.Close() calls
    dbusLog,      \* history: number of "Disconnected from DBus" log lines
    mqttDisconnects, \* history: number of mqttClient.Disconnect() calls
    mqttLog,      \* history: number of "Disconnected from MQTT" log lines
    apiCalls      \* number of calls made by the connection-API specification

vars == <<pc, config, cfgFile, dbusConn, mqttClient, opts, status, brokerSubs,
          routes, subscribed, i, j, defers, err, exitStatus, calls, events, msg,
          pending, notified, tplEvals, parsed, failedBefore, dispatched,
          reconnected, closeCalls, dbusLog, mqttDisconnects, mqttLog, apiCalls>>

\* ---------------------------------------------------------------- bounds

MaxRules == 2        \* rules of a configuration file
MaxPayloadLen == 3   \* characters of a payload of the rendering specification
MaxTplLen == 1       \* tokens of a template of the rendering specification
MaxCalls == 4        \* calls of the connection-function specification

\* ------------------------------------------------------------------ text

NL == "\n"

Chars == {"a", NL}

RECURSIVE SeqsUpTo(_, _)
SeqsUpTo(S, n) ==
    IF n = 0 THEN {<<>>}
    ELSE LET shorter == SeqsUpTo(S, n - 1)
         IN shorter \cup {Append(s, x) : s \in shorter, x \in S}

Range(s) == {s[k] : k \in 1..Len(s)}

\* index of the first newline of text, 0 when it has none
FirstNL(text) ==
    IF \E k \in 1..Len(text) : text[k] = NL
    THEN CHOOSE k \in 1..Len(text) :
            text[k] = NL /\ \A m \in 1..(k - 1) : text[m] # NL
    ELSE 0

\* a split at every newline of which the first two parts are kept
SplitKeepTwo(text) ==
    LET k == FirstNL(text)
        rest == SubSeq(text, k + 1, Len(text))
        k2 == FirstNL(rest)
    IN IF k = 0 THEN <<text>>
       ELSE <<SubSeq(text, 1, k - 1),
              IF k2 = 0 THEN rest ELSE SubSeq(rest, 1, k2 - 1)>>

\* strings.SplitN(text, "\n", 2)
SplitN2(text) ==
    LET k == FirstNL(text)
    IN IF k = 0 THEN <<text>>
       ELSE <<SubSeq(text, 1, k - 1), SubSeq(text, k + 1, Len(text))>>

\* ------------------------------------------------------------- templates

\* Template tokens: a literal character, or one of the actions below.
DOT == "{{.}}"       \* the payload
FIELD == "{{.F}}"    \* a field of the payload: parses, fails to execute on a string
OPEN == "{{"         \* an unclosed action: fails to parse
SEG1 == "{{index .Topic 1}}"   \* segment 1 of the field Topic of the data
SEG5 == "{{index .Topic 5}}"   \* segment 5 of the field Topic of the data

\* the actions that evaluate a field of the data
FieldActions == {FIELD, SEG1, SEG5}

TplTokens == {"T", DOT, FIELD, OPEN}

\* t.Parse(templateString): err == nil
ParseOk(src) == \A k \in 1..Len(src) : src[k] # OPEN

\* t.Execute(buf, text): the buffer written and whether execution failed.
\* The data is the payload, a string, which has no fields.
RECURSIVE Execute(_, _)
Execute(tree, text) ==
    IF tree = <<>> THEN [out |-> <<>>, err |-> FALSE]
    ELSE IF Head(tree) \in FieldActions THEN [out |-> <<>>, err |-> TRUE]
    ELSE LET rest == Execute(Tail(tree), text)
             piece == IF Head(tree) = DOT THEN text ELSE <<Head(tree)>>
         IN [out |-> piece \o rest.out, err |-> rest.err]

\* (s *Subscription) template(which, text)
template(s, which, text) ==
    IF which \notin {"Title", "Body"} THEN [out |-> <<>>, err |-> TRUE]
    ELSE LET templateString == IF which = "Title" THEN s.Title ELSE s.Body
         IN IF ~ParseOk(templateString) THEN [out |-> <<>>, err |-> TRUE]
            ELSE LET r == Execute(templateString, text)
                 IN IF r.err THEN [out |-> <<>>, err |-> TRUE]
                    ELSE [out |-> r.out, err |-> FALSE]

\* templates used only when the rule sets both the title and the body
createTitleAndBodyBoth(s, text) ==
    LET useTemplates == s.Title # <<>> /\ s.Body # <<>>
    IN IF useTemplates
       THEN LET b == template(s, "Body", text)
                t == template(s, "Title", text)
            IN [title |-> t.out, body |-> b.out,
                failed |-> (b.err \/ t.err), evals |-> 2]
       ELSE LET parts == SplitN2(text)
            IN [title |-> parts[1],
                body |-> IF Len(parts) > 1 THEN parts[2] ELSE <<>>,
                failed |-> FALSE, evals |-> 0]

\* (s *Subscription) createTitleAndBody(text); `failed` is the logged
\* "ERROR: Failed to parse template", `evals` the number of template() calls
createTitleAndBody(s, text) ==
    LET useTemplates == s.Title # <<>> \/ s.Body # <<>>
    IN IF useTemplates
       THEN LET b == template(s, "Body", text)
                t == template(s, "Title", text)
            IN [title |-> t.out, body |-> b.out,
                failed |-> (b.err \/ t.err), evals |-> 2]
       ELSE LET parts == SplitN2(text)
            IN [title |-> parts[1],
                body |-> IF Len(parts) > 1 THEN parts[2] ELSE <<>>,
                failed |-> FALSE, evals |-> 0]

\* the icon of the older notify(scfg, title, body) (main.go:101): config.Icon
\* for every rule
GlobalIconOnly(s, cfg) == cfg.Icon

\* the icon (s *Subscription) Trigger passes to notify
TriggerIcon(s, cfg) == IF s.Icon # "" THEN s.Icon ELSE cfg.Icon

\* ---------------------------------------------------------- configuration

\* loadConfig: "initialize with defaults"
Defaults ==
    [Host |-> "localhost", Port |-> 1883, User |-> "", Pass |-> "",
     Timeout |-> 5, Icon |-> "dialog-information", Subscriptions |-> <<>>]

\* the value of `config` before loadConfig ran
NilConfig ==
    [Host |-> "", Port |-> 0, User |-> "", Pass |-> "",
     Timeout |-> 0, Icon |-> "", Subscriptions |-> <<>>]

\* a decoder that fills a new Config instead of the one holding the defaults
OverlayOnZero(file) ==
    [f \in DOMAIN Defaults |-> IF f \in DOMAIN file THEN file[f] ELSE NilConfig[f]]

\* decoder.Decode(&config): the fields the file names replace the defaults
Overlay(file) ==
    [f \in DOMAIN Defaults |-> IF f \in DOMAIN file THEN file[f] ELSE Defaults[f]]

Rule(topic, title, body, icon) ==
    [Topic |-> topic, Title |-> title, Body |-> body, Icon |-> icon]

\* The rules the configuration files of the model are built from: a default
\* rule on a wildcard filter, a template rule with its own icon, a rule whose
\* title template fails to execute, a rule whose body template fails to
\* parse, and a rule without topic.
RuleSet ==
    {Rule(<<"a", "+">>, <<>>, <<>>, ""),
     Rule(<<"a", "b">>, <<"T">>, <<DOT>>, "appointment-soon"),
     Rule(<<"a", "b">>, <<FIELD>>, <<DOT>>, ""),
     Rule(<<"a", "b">>, <<DOT>>, <<OPEN>>, "appointment-soon"),
     Rule(<<>>, <<>>, <<>>, "")}

\* The configuration files, as the fields their JSON keys name: the
\* "subscriptions" lists up to MaxRules rules alone, and three files that set
\* other fields.  The last one is a file for a broker with TLS and
\* authentication; its key "secure" (README.md:42, 63) names no field of
\* Config.
ConfigFiles ==
    {[Subscriptions |-> subs] : subs \in SeqsUpTo(RuleSet, MaxRules)}
    \cup {[Icon |-> "mail-unread",
           Subscriptions |-> <<Rule(<<"a", "+">>, <<>>, <<>>, "")>>],
          [Host |-> "box", Timeout |-> 1],
          [Host |-> "box", Port |-> 8883, User |-> "u", Pass |-> "p",
           Secure |-> TRUE]}

\* no configuration file at the default path
NoFile == <<>>

\* concrete topics and payloads of the messages published at the broker
ArrTopics == {<<"a", "b">>, <<"a", "c">>}

ArrPayloads == {<<"a">>, <<"a", NL, "a">>}

\* ------------------------------------------------------------ paho client

\* opts := mqtt.NewClientOptions(): connectMQTT sets the broker and the client
\* id only, so the session keeps the library's default, CleanSession = true
CleanSession == TRUE

\* mqttClient.IsConnected(): true while connected, and while the client is
\* reconnecting on its own (AutoReconnect is the library's default)
IsConnected == status \in {"connected", "reconnecting"}

\* the router's match of a route's filter against an arrived topic
RECURSIVE match(_, _)
match(route, topic) ==
    IF route = <<>> THEN topic = <<>>
    ELSE IF topic = <<>> THEN Head(route) = "#"
    ELSE IF Head(route) = "#" THEN TRUE
    ELSE IF Head(route) = "+" \/ Head(route) = Head(topic)
         THEN match(Tail(route), Tail(topic))
         ELSE FALSE

\* router.addRoute: a route for the same filter gets the new callback,
\* otherwise the route is added at the end
addRoute(rs, topic, rule) ==
    IF \E k \in 1..Len(rs) : rs[k].topic = topic
    THEN [k \in 1..Len(rs) |->
            IF rs[k].topic = topic THEN [topic |-> topic, rule |-> rule] ELSE rs[k]]
    ELSE Append(rs, [topic |-> topic, rule |-> rule])

\* router.deleteRoute
deleteRoute(rs, topic) == SelectSeq(rs, LAMBDA r : r.topic # topic)

\* router.matchAndDispatch: the callbacks of all routes whose filter matches
\* the arrived topic, in registration order
Handlers(rs, topic) ==
    LET hit == SelectSeq(rs, LAMBDA r : match(r.topic, topic))
    IN [k \in 1..Len(hit) |-> hit[k].rule]

NoMsg == [topic |-> <<>>, payload |-> <<>>, live |-> FALSE]

\* an entry of the history `events`
Ev(op, topic) == [op |-> op, topic |-> topic]

\* ------------------------------------------------------------------ D-Bus

\* connectDBus: dbus.SessionBus() succeeded or failed
connectDBus(ok) ==
    IF ok
    THEN /\ dbusConn' = "open"
         /\ events' = Append(events, Ev("connectDBus", <<>>))
    ELSE UNCHANGED <<dbusConn, events>>

\* disconnectDBus
disconnectDBus ==
    IF dbusConn # "nil"
    THEN /\ dbusConn' = "closed"
         /\ closeCalls' = closeCalls + 1
         /\ dbusLog' = dbusLog + 1
         /\ events' = Append(events, Ev("disconnectDBus", <<>>))
    ELSE UNCHANGED <<dbusConn, closeCalls, dbusLog, events>>

\* ------------------------------------------------------------------- MQTT

\* the client options before connectMQTT built any
NoOpts ==
    [scheme |-> "", host |-> "", port |-> 0, username |-> "", password |-> "",
     cleanSession |-> CleanSession]

\* connectMQTT: uri := fmt.Sprintf("tcp://%v:%v", config.Host, config.Port);
\* opts := mqtt.NewClientOptions(); opts.AddBroker(uri); opts.SetClientID(..).
\* Username and password keep the library's defaults, the empty strings.
ClientOptions(cfg) ==
    [scheme |-> "tcp", host |-> cfg.Host, port |-> cfg.Port,
     username |-> "", password |-> "", cleanSession |-> CleanSession]

\* connectMQTT: the connect token completed in time without error ("ok"),
\* did not complete in time ("timeout") or completed with an error ("error")
connectMQTT(result) ==
    /\ opts' = ClientOptions(config)
    /\ mqttClient' = "created"
    /\ status' = IF result = "ok" THEN "connected" ELSE "disconnected"
    /\ events' = IF result = "ok" THEN Append(events, Ev("connectMQTT", <<>>))
                 ELSE events

\* disconnectMQTT
disconnectMQTT ==
    IF mqttClient # "nil" /\ IsConnected
    THEN /\ status' = "disconnected"
         /\ brokerSubs' = IF CleanSession THEN {} ELSE brokerSubs
         /\ mqttDisconnects' = mqttDisconnects + 1
         /\ mqttLog' = mqttLog + 1
         /\ events' = Append(events, Ev("disconnectMQTT", <<>>))
    ELSE UNCHANGED <<status, brokerSubs, mqttDisconnects, mqttLog, events>>

\* a loop that subscribes every rule
AnyTopic(sub) == TRUE

\* subscribe: if sub.Topic == "" { log WARNING; continue }
HasTopic(sub) == sub.Topic # <<>>

\* a list that grows at its head
SubscribedPrepend(result, topic) ==
    IF result = "ok" THEN <<topic>> \o subscribed ELSE subscribed

\* the topic recorded before the token is waited for
SubscribedAlways(result, topic) == Append(subscribed, topic)

\* subscribe: `subscribed` after the wait for the token of Subscribe(topic)
SubscribedAfter(result, topic) ==
    IF result = "ok" THEN Append(subscribed, topic) ELSE subscribed

\* a timeout that is logged and skipped instead of returned
SubscribeSkipsTimeout(result) ==
    IF result = "ok" \/ result = "timeout"
    THEN [pc |-> "subscribe", err |-> "none", i |-> i + 1]
    ELSE [pc |-> "return", err |-> "subscribeError", i |-> i]

\* subscribe: where the loop goes after the wait for the token, and the
\* error subscribe returns
SubscribeOutcome(result) ==
    IF result = "ok" THEN [pc |-> "subscribe", err |-> "none", i |-> i + 1]
    ELSE IF result = "timeout"
         THEN [pc |-> "return", err |-> "subscribeTimeout", i |-> i]
         ELSE [pc |-> "return", err |-> "subscribeError", i |-> i]

\* a main that does not look at the error run returns
ExitCodeIgnoresError(e) == 0

\* main: err := run(); if err != nil { log.Fatal(err) }: log.Fatal exits with
\* status 1, a return from main with status 0
ExitCode(e) == IF e # "none" THEN 1 ELSE 0

\* a cleanup that is not deferred
DeferForgotten(f) == defers

\* deferred calls run in the order of their registration
DeferQueued(f) == Append(defers, f)

\* run: defer f()
PushDefer(f) == <<f>> \o defers

\* ----------------------------------------------------------- the program

InitCommon ==
    /\ pc = "loadConfig"
    /\ config = NilConfig
    /\ cfgFile = NoFile
    /\ dbusConn = "nil"
    /\ mqttClient = "nil"
    /\ opts = NoOpts
    /\ status = "disconnected"
    /\ brokerSubs = {}
    /\ routes = <<>>
    /\ subscribed = <<>>
    /\ i = 1
    /\ j = 1
    /\ defers = <<>>
    /\ err = "none"
    /\ exitStatus = -1
    /\ calls = <<>>
    /\ events = <<>>
    /\ msg = NoMsg
    /\ pending = <<>>
    /\ notified = <<>>
    /\ tplEvals = 0
    /\ parsed = {}
    /\ failedBefore = FALSE
    /\ dispatched = 0
    /\ reconnected = FALSE
    /\ closeCalls = 0
    /\ dbusLog = 0
    /\ mqttDisconnects = 0
    /\ mqttLog = 0
    /\ apiCalls = 0

Init == InitCommon

\* variables of the client's background context and of the histories
clientVars == <<status, brokerSubs, routes, msg, pending, notified, tplEvals,
               parsed, failedBefore, dispatched, reconnected>>

countVars == <<closeCalls, dbusLog, mqttDisconnects, mqttLog, apiCalls>>

\* loadConfig: no file (the defaults), a file overlaid on the defaults, or an
\* error (no current user, unreadable file, malformed JSON)
LoadConfig ==
    /\ pc = "loadConfig"
    /\ \/ /\ config' = Defaults
          /\ pc' = "connectDBus"
          /\ UNCHANGED <<cfgFile, err>>
       \/ /\ \E file \in ConfigFiles :
                /\ config' = Overlay(file)
                /\ cfgFile' = file
          /\ pc' = "connectDBus"
          /\ UNCHANGED err
       \/ /\ config' = Defaults
          /\ err' = "config"
          /\ pc' = "main"
          /\ UNCHANGED cfgFile
    /\ UNCHANGED <<dbusConn, mqttClient, opts, subscribed, i, j, defers,
                   exitStatus, calls, events>>
    /\ UNCHANGED clientVars
    /\ UNCHANGED countVars

\* run: err = connectDBus(); if err != nil { return err }; defer disconnectDBus()
ConnectDBus ==
    /\ pc = "connectDBus"
    /\ \E ok \in BOOLEAN :
          /\ connectDBus(ok)
          /\ IF ok
             THEN /\ defers' = PushDefer("disconnectDBus")
                  /\ pc' = "connectMQTT"
                  /\ UNCHANGED err
             ELSE /\ err' = "dbus"
                  /\ pc' = "return"
                  /\ UNCHANGED defers
    /\ UNCHANGED <<config, cfgFile, mqttClient, opts, subscribed, i, j,
                   exitStatus, calls>>
    /\ UNCHANGED clientVars
    /\ UNCHANGED countVars

\* run: err = connectMQTT(); if err != nil { return err }; defer disconnectMQTT()
ConnectMQTT ==
    /\ pc = "connectMQTT"
    /\ \E result \in {"ok", "timeout", "error"} :
          /\ connectMQTT(result)
          /\ IF result = "ok"
             THEN /\ defers' = PushDefer("disconnectMQTT")
                  /\ pc' = "subscribe"
                  /\ UNCHANGED err
             ELSE /\ err' = IF result = "timeout" THEN "connectTimeout" ELSE "connectError"
                  /\ pc' = "return"
                  /\ UNCHANGED defers
    /\ UNCHANGED <<config, cfgFile, dbusConn, subscribed, i, j, exitStatus,
                   calls>>
    /\ UNCHANGED <<brokerSubs, routes, msg, pending, notified, tplEvals, parsed,
                   failedBefore, dispatched, reconnected>>
    /\ UNCHANGED countVars

\* subscribe: a rule without topic is skipped with a warning
SubscribeSkip ==
    /\ pc = "subscribe"
    /\ i <= Len(config.Subscriptions)
    /\ ~HasTopic(config.Subscriptions[i])
    /\ i' = i + 1
    /\ UNCHANGED <<pc, config, cfgFile, dbusConn, mqttClient, opts, subscribed,
                   j, defers, err, exitStatus, calls, events>>
    /\ UNCHANGED clientVars
    /\ UNCHANGED countVars

\* subscribe: mqttClient.Subscribe(sub.Topic, qos, callback) and the wait for
\* its token.  The client registers the callback's route before it sends the
\* request; a token that ends with an error never got that far; after a
\* timeout the broker may or may not hold the subscription.
SubscribeCall ==
    /\ pc = "subscribe"
    /\ i <= Len(config.Subscriptions)
    /\ HasTopic(config.Subscriptions[i])
    /\ LET topic == config.Subscriptions[i].Topic
       IN \E result \in {"ok", "timeout", "error"}, late \in BOOLEAN :
            /\ result = "ok" => status = "connected" /\ ~late
            /\ result = "error" => ~late
            /\ calls' = Append(calls, [topic |-> topic, rule |-> i, result |-> result])
            /\ routes' = IF result = "error" THEN routes ELSE addRoute(routes, topic, i)
            /\ brokerSubs' = IF result = "ok" \/ (late /\ status = "connected")
                             THEN brokerSubs \cup {topic} ELSE brokerSubs
            /\ events' = Append(events, Ev("subscribe", topic))
            /\ subscribed' = SubscribedAfter(result, topic)
            /\ pc' = SubscribeOutcome(result).pc
            /\ err' = SubscribeOutcome(result).err
            /\ i' = SubscribeOutcome(result).i
    /\ UNCHANGED <<config, cfgFile, dbusConn, mqttClient, opts, j, defers,
                   exitStatus>>
    /\ UNCHANGED <<status, msg, pending, notified, tplEvals, parsed,
                   failedBefore, dispatched, reconnected>>
    /\ UNCHANGED countVars

\* subscribe returned nil; run: defer unsubscribe(), then block on the signal
SubscribeDone ==
    /\ pc = "subscribe"
    /\ i > Len(config.Subscriptions)
    /\ defers' = PushDefer("unsubscribe")
    /\ pc' = "wait"
    /\ UNCHANGED <<config, cfgFile, dbusConn, mqttClient, opts, subscribed, i,
                   j, err, exitStatus, calls, events>>
    /\ UNCHANGED clientVars
    /\ UNCHANGED countVars

\* run: _ = <-s; return nil
Signal ==
    /\ pc = "wait"
    /\ pc' = "return"
    /\ events' = Append(events, Ev("SIGINT", <<>>))
    /\ UNCHANGED <<config, cfgFile, dbusConn, mqttClient, opts, subscribed, i,
                   j, defers, err, exitStatus, calls>>
    /\ UNCHANGED clientVars
    /\ UNCHANGED countVars

\* run returns: the deferred unsubscribe() starts
DeferUnsubscribe ==
    /\ pc = "return"
    /\ defers # <<>>
    /\ Head(defers) = "unsubscribe"
    /\ defers' = Tail(defers)
    /\ pc' = IF mqttClient # "nil" THEN "unsubscribe" ELSE "return"
    /\ j' = 1
    /\ UNCHANGED <<config, cfgFile, dbusConn, mqttClient, opts, subscribed, i,
                   err, exitStatus, calls, events>>
    /\ UNCHANGED clientVars
    /\ UNCHANGED countVars

\* unsubscribe: mqttClient.Unsubscribe(topic) for the next topic.  A client
\* that is not connected refuses the call; otherwise it drops the topic's
\* route and sends the request.
UnsubscribeStep ==
    /\ pc = "unsubscribe"
    /\ j <= Len(subscribed)
    /\ LET topic == subscribed[j]
       IN /\ events' = Append(events, Ev("unsubscribe", topic))
          /\ routes' = IF IsConnected THEN deleteRoute(routes, topic) ELSE routes
          /\ brokerSubs' = IF status = "connected" THEN brokerSubs \ {topic}
                           ELSE brokerSubs
    /\ j' = j + 1
    /\ UNCHANGED <<pc, config, cfgFile, dbusConn, mqttClient, opts, subscribed,
                   i, defers, err, exitStatus, calls>>
    /\ UNCHANGED <<status, msg, pending, notified, tplEvals, parsed,
                   failedBefore, dispatched, reconnected>>
    /\ UNCHANGED countVars

UnsubscribeDone ==
    /\ pc = "unsubscribe"
    /\ j > Len(subscribed)
    /\ pc' = "return"
    /\ UNCHANGED <<config, cfgFile, dbusConn, mqttClient, opts, subscribed, i,
                   j, defers, err, exitStatus, calls, events>>
    /\ UNCHANGED clientVars
    /\ UNCHANGED countVars

\* run returns: the deferred disconnectMQTT()
DeferDisconnectMQTT ==
    /\ pc = "return"
    /\ defers # <<>>
    /\ Head(defers) = "disconnectMQTT"
    /\ defers' = Tail(defers)
    /\ disconnectMQTT
    /\ UNCHANGED <<pc, config, cfgFile, dbusConn, mqttClient, opts, subscribed,
                   i, j, err, exitStatus, calls>>
    /\ UNCHANGED <<routes, msg, pending, notified, tplEvals, parsed,
                   failedBefore, dispatched, reconnected>>
    /\ UNCHANGED <<closeCalls, dbusLog, apiCalls>>

\* run returns: the deferred disconnectDBus()
DeferDisconnectDBus ==
    /\ pc = "return"
    /\ defers # <<>>
    /\ Head(defers) = "disconnectDBus"
    /\ defers' = Tail(defers)
    /\ disconnectDBus
    /\ UNCHANGED <<pc, config, cfgFile, mqttClient, opts, subscribed, i, j, err,
                   exitStatus, calls>>
    /\ UNCHANGED clientVars
    /\ UNCHANGED <<mqttDisconnects, mqttLog, apiCalls>>

\* run has returned to main
ReturnToMain ==
    /\ pc = "return"
    /\ defers = <<>>
    /\ pc' = "main"
    /\ UNCHANGED <<config, cfgFile, dbusConn, mqttClient, opts, subscribed, i,
                   j, defers, err, exitStatus, calls, events>>
    /\ UNCHANGED clientVars
    /\ UNCHANGED countVars

\* main: if err != nil { log.Fatal(err) }, which exits with status 1
Main ==
    /\ pc = "main"
    /\ exitStatus' = ExitCode(err)
    /\ pc' = "exited"
    /\ UNCHANGED <<config, cfgFile, dbusConn, mqttClient, opts, subscribed, i,
                   j, defers, err, calls, events>>
    /\ UNCHANGED clientVars
    /\ UNCHANGED countVars

\* ------------------------------------------- the client's background context

\* the connection to the broker is lost; the client starts to reconnect
ConnectionLost ==
    /\ pc # "exited"
    /\ status = "connected"
    /\ status' = "reconnecting"
    /\ UNCHANGED <<pc, config, cfgFile, dbusConn, mqttClient, opts, subscribed,
                   i, j, defers, err, exitStatus, calls, events>>
    /\ UNCHANGED <<brokerSubs, routes, msg, pending, notified, tplEvals, parsed,
                   failedBefore, dispatched, reconnected>>
    /\ UNCHANGED countVars

\* the client's automatic reconnect succeeds: a CONNECT with the options of
\* connectMQTT, on which the broker starts a new session when CleanSession is
\* set; the program registers no OnConnect handler and subscribes nothing anew
Reconnect ==
    /\ pc # "exited"
    /\ status = "reconnecting"
    /\ status' = "connected"
    /\ brokerSubs' = IF CleanSession THEN {} ELSE brokerSubs
    /\ reconnected' = TRUE
    /\ UNCHANGED <<pc, config, cfgFile, dbusConn, mqttClient, opts, subscribed,
                   i, j, defers, err, exitStatus, calls, events>>
    /\ UNCHANGED <<routes, msg, pending, notified, tplEvals, parsed,
                   failedBefore, dispatched>>
    /\ UNCHANGED countVars

\* a message published on `topic` reaches the client, which the broker sends
\* when a filter of the session matches; the router takes it once the
\* callbacks of the previous message have run
Arrive(topic, payload) ==
    /\ pc # "exited"
    /\ status = "connected"
    /\ \E f \in brokerSubs : match(f, topic)
    /\ pending = <<>>
    /\ msg' = [topic |-> topic, payload |-> payload, live |-> TRUE]
    /\ pending' = Handlers(routes, topic)
    /\ notified' = <<>>
    /\ tplEvals' = 0
    /\ dispatched' = Len(Handlers(routes, topic))
    /\ failedBefore' = (failedBefore \/ \E n \in Range(notified) : n.failed \/ n.err)
    /\ UNCHANGED <<pc, config, cfgFile, dbusConn, mqttClient, opts, subscribed,
                   i, j, defers, err, exitStatus, calls, events>>
    /\ UNCHANGED <<status, brokerSubs, routes, parsed, reconnected>>
    /\ UNCHANGED countVars

Publish == \E topic \in ArrTopics, payload \in ArrPayloads : Arrive(topic, payload)

\* template: t := template.New(..); t.Parse(templateString) runs on every
\* call of template(), and createTitleAndBody calls template() once for the
\* body and once for the title when the rule uses templates
Parsed(ps, rule, r) ==
    IF r.evals = 0 THEN ps ELSE ps \cup {<<rule, "Body">>, <<rule, "Title">>}

\* call.Err of the Notify call: the notification service may refuse any
\* call, and a connection that is not open refuses every call
NotifyErrors == IF dbusConn = "open" THEN BOOLEAN ELSE {TRUE}

\* a Notify call that leaves the expiry to the notification server
notifyServerExpiry(rule, r, icon, callErr) ==
    notified' = Append(notified,
                       [rule |-> rule, title |-> r.title, body |-> r.body,
                        icon |-> icon, failed |-> r.failed, conn |-> dbusConn,
                        appName |-> "mqtt-dbus-notify", replacesId |-> 0,
                        actions |-> <<>>, hints |-> <<>>, expire |-> -1,
                        err |-> callErr])

\* notify(title, body, icon): notifications.Call(NOTIFY_METHOD, 0, APPNAME,
\* uint32(0), icon, title, body, []string{}, map[string]dbus.Variant{},
\* int32(7000)), recorded with the state the D-Bus connection is in and with
\* the error of the call
notify(rule, r, icon, callErr) ==
    notified' = Append(notified,
                       [rule |-> rule, title |-> r.title, body |-> r.body,
                        icon |-> icon, failed |-> r.failed, conn |-> dbusConn,
                        appName |-> "mqtt-dbus-notify", replacesId |-> 0,
                        actions |-> <<>>, hints |-> <<>>, expire |-> 7000,
                        err |-> callErr])

\* a callback that ends the process when rendering or the Notify call failed
TriggerFatal(r, callErr) ==
    IF r.failed \/ callErr THEN [pc |-> "exited", exitStatus |-> 1]
    ELSE [pc |-> pc, exitStatus |-> exitStatus]

\* Trigger: createTitleAndBody only logs a template error, and what notify
\* returns is discarded; the main goroutine stays where it is
TriggerOutcome(r, callErr) == [pc |-> pc, exitStatus |-> exitStatus]

\* a callback that stores the rule's icon in the global configuration
TriggerSetsIcon(s) == [config EXCEPT !.Icon = IF s.Icon # "" THEN s.Icon ELSE @]

\* Trigger: `config` after the callback, which only reads config.Icon
TriggerConfig(s) == config

\* the callback of rule Head(pending): s.Trigger(m.Payload()).  It runs in a
\* goroutine of the client; the program has no lock or wait between it and
\* the main goroutine, so it runs at any point of setup and teardown until
\* the process exits.
Trigger ==
    /\ pc # "exited"
    /\ pending # <<>>
    /\ LET rule == Head(pending)
           s == config.Subscriptions[rule]
           r == createTitleAndBody(s, msg.payload)
       IN /\ \E callErr \in NotifyErrors :
                /\ notify(rule, r, TriggerIcon(s, config), callErr)
                /\ pc' = TriggerOutcome(r, callErr).pc
                /\ exitStatus' = TriggerOutcome(r, callErr).exitStatus
          /\ tplEvals' = tplEvals + r.evals
          /\ parsed' = Parsed(parsed, rule, r)
          /\ config' = TriggerConfig(s)
    /\ pending' = Tail(pending)
    /\ UNCHANGED <<cfgFile, dbusConn, mqttClient, opts, subscribed, i, j,
                   defers, err, calls, events>>
    /\ UNCHANGED <<status, brokerSubs, routes, msg, failedBefore, dispatched,
                   reconnected>>
    /\ UNCHANGED countVars

Next ==
    \/ LoadConfig
    \/ ConnectDBus
    \/ ConnectMQTT
    \/ SubscribeSkip
    \/ SubscribeCall
    \/ SubscribeDone
    \/ Signal
    \/ DeferUnsubscribe
    \/ UnsubscribeStep
    \/ UnsubscribeDone
    \/ DeferDisconnectMQTT
    \/ DeferDisconnectDBus
    \/ ReturnToMain
    \/ Main
    \/ ConnectionLost
    \/ Reconnect
    \/ Publish
    \/ Trigger

Spec == Init /\ [][Next]_vars

\* The steps of the main goroutine once run returns or loadConfig failed:
\* the deferred calls and main's exit.  They are straight-line code; none of
\* them waits for the broker or the bus (Unsubscribe's token is not waited
\* for, Disconnect(250) waits 250 ms at most), so each one that can run does.
Teardown ==
    \/ DeferUnsubscribe
    \/ UnsubscribeStep
    \/ UnsubscribeDone
    \/ DeferDisconnectMQTT
    \/ DeferDisconnectDBus
    \/ ReturnToMain
    \/ Main

SpecLive == Init /\ [][Next]_vars /\ WF_vars(Teardown)

\* ------------------------------------------------- rendering on its own
\* One rule drawn from all rules over the templates of up to MaxTplLen
\* tokens (and one with two-token templates), the program in the state it is
\* in once that rule is subscribed and run waits for the signal, and
\* messages with every payload of up to MaxPayloadLen characters.

Payloads == SeqsUpTo(Chars, MaxPayloadLen)

TplSources == SeqsUpTo(TplTokens, MaxTplLen) \cup {<<"T", DOT>>, <<DOT, "T">>}

\* rules on a three-level topic whose title template asks for a segment of
\* the topic
TopicRules ==
    {Rule(<<"home", "kitchen", "temp">>, title, body, "") :
        title \in {<<SEG1>>, <<SEG5>>}, body \in {<<>>, <<DOT>>}}

RenderRules ==
    {Rule(<<"a", "b">>, title, body, icon) :
        title \in TplSources, body \in TplSources, icon \in {"", "appointment-soon"}}
    \cup TopicRules

InitRender ==
    \E rule \in RenderRules :
        /\ pc = "wait"
        /\ config = Overlay([Subscriptions |-> <<rule>>])
        /\ cfgFile = [Subscriptions |-> <<rule>>]
        /\ dbusConn = "open"
        /\ mqttClient = "created"
        /\ opts = ClientOptions(config)
        /\ status = "connected"
        /\ brokerSubs = {rule.Topic}
        /\ routes = <<[topic |-> rule.Topic, rule |-> 1]>>
        /\ subscribed = <<rule.Topic>>
        /\ i = 2
        /\ j = 1
        /\ defers = <<"unsubscribe", "disconnectMQTT", "disconnectDBus">>
        /\ err = "none"
        /\ exitStatus = -1
        /\ calls = <<[topic |-> rule.Topic, rule |-> 1, result |-> "ok"]>>
        /\ events = <<Ev("connectDBus", <<>>), Ev("connectMQTT", <<>>),
                      Ev("subscribe", rule.Topic)>>
        /\ msg = NoMsg
        /\ pending = <<>>
        /\ notified = <<>>
        /\ tplEvals = 0
        /\ parsed = {}
        /\ failedBefore = FALSE
        /\ dispatched = 0
        /\ reconnected = FALSE
        /\ closeCalls = 0
        /\ dbusLog = 0
        /\ mqttDisconnects = 0
        /\ mqttLog = 0
        /\ apiCalls = 0

PublishAny ==
    \E topic \in {<<"a", "b">>, <<"home", "kitchen", "temp">>}, payload \in Payloads :
        Arrive(topic, payload)

NextRender ==
    \/ PublishAny
    \/ Trigger

SpecRender == InitRender /\ [][NextRender]_vars

\* ------------------------------------------- the connection functions alone
\* connectDBus, disconnectDBus, connectMQTT and disconnectMQTT called in any
\* order, up to MaxCalls calls, with the connection to the broker lost and
\* restored in between.

ApiConnectDBus ==
    /\ apiCalls < MaxCalls
    /\ \E ok \in BOOLEAN : connectDBus(ok)
    /\ apiCalls' = apiCalls + 1
    /\ UNCHANGED <<pc, config, cfgFile, mqttClient, opts, subscribed, i, j,
                   defers, err, exitStatus, calls>>
    /\ UNCHANGED clientVars
    /\ UNCHANGED <<closeCalls, dbusLog, mqttDisconnects, mqttLog>>

ApiDisconnectDBus ==
    /\ apiCalls < MaxCalls
    /\ disconnectDBus
    /\ apiCalls' = apiCalls + 1
    /\ UNCHANGED <<pc, config, cfgFile, mqttClient, opts, subscribed, i, j,
                   defers, err, exitStatus, calls>>
    /\ UNCHANGED clientVars
    /\ UNCHANGED <<mqttDisconnects, mqttLog>>

ApiConnectMQTT ==
    /\ apiCalls < MaxCalls
    /\ \E result \in {"ok", "timeout", "error"} : connectMQTT(result)
    /\ apiCalls' = apiCalls + 1
    /\ UNCHANGED <<pc, config, cfgFile, dbusConn, subscribed, i, j, defers, err,
                   exitStatus, calls>>
    /\ UNCHANGED <<brokerSubs, routes, msg, pending, notified, tplEvals, parsed,
                   failedBefore, dispatched, reconnected>>
    /\ UNCHANGED <<closeCalls, dbusLog, mqttDisconnects, mqttLog>>

ApiDisconnectMQTT ==
    /\ apiCalls < MaxCalls
    /\ disconnectMQTT
    /\ apiCalls' = apiCalls + 1
    /\ UNCHANGED <<pc, config, cfgFile, dbusConn, mqttClient, opts, subscribed,
                   i, j, defers, err, exitStatus, calls>>
    /\ UNCHANGED <<routes, msg, pending, notified, tplEvals, parsed,
                   failedBefore, dispatched, reconnected>>
    /\ UNCHANGED <<closeCalls, dbusLog>>

InitConn == InitCommon

NextConn ==
    \/ ApiConnectDBus
    \/ ApiDisconnectDBus
    \/ ApiConnectMQTT
    \/ ApiDisconnectMQTT
    \/ ConnectionLost
    \/ Reconnect

SpecConn == InitConn /\ [][NextConn]_vars

\* ----------------------------------------------------------------- claims

\* C1: a rule whose title and body templates are both empty renders the
\* payload's part before the first newline as the title (the whole payload
\* when it has no newline) and the part after the first newline as the body
\* (empty when it has no newline), and evaluates no template.
C1_DefaultRuleSplitsAtFirstNewline ==
    \A k \in 1..Len(notified) :
        LET n == notified[k]
            s == config.Subscriptions[n.rule]
            p == msg.payload
        IN (s.Title = <<>> /\ s.Body = <<>>) =>
              /\ NL \notin Range(n.title)
              /\ IF NL \in Range(p) THEN p = n.title \o <<NL>> \o n.body
                 ELSE n.title = p /\ n.body = <<>>
              /\ tplEvals = 0
              /\ ~n.failed

\* a default rule has rendered a payload with two newlines
C1_Witness ==
    /\ Len(notified) = 1
    /\ config.Subscriptions[1].Title = <<>>
    /\ config.Subscriptions[1].Body = <<>>
    /\ msg.payload = <<"a", NL, NL>>
    /\ notified[1].title = <<"a">>
    /\ notified[1].body = <<NL>>

\* C2: if the title template or the body template of a rule fails for an
\* arrived message, no notify call is made for that message.
C2_NoNotifyAfterTemplateFailure ==
    \A k \in 1..Len(notified) : ~notified[k].failed

\* C3: after a connection loss and the client's automatic reconnect, the
\* broker still holds every topic of the active subscription set, so that it
\* goes on delivering their messages without a new subscribe call.
C3_SubscriptionsSurviveReconnect ==
    (reconnected /\ status = "connected" /\ pc = "wait") =>
        \A k \in 1..Len(subscribed) : subscribed[k] \in brokerSubs

\* the topics of the Subscribe calls that completed in time without error
OkTopics ==
    LET ok == SelectSeq(calls, LAMBDA c : c.result = "ok")
    IN [k \in 1..Len(ok) |-> ok[k].topic]

\* C4: the active subscription list holds the topics whose subscribe call
\* completed successfully within the timeout, one entry per such call, and
\* nothing for a call that failed or timed out.
C4_SubscribedOnlySuccessful == subscribed = OkTopics

\* a subscribe call timed out after another one had succeeded
C4_Witness ==
    /\ Len(calls) = 2
    /\ calls[1].result = "ok"
    /\ calls[2].result = "timeout"
    /\ subscribed = <<calls[1].topic>>
    /\ pc = "exited"

\* C5: a subscribe call that times out or fails is the last one issued;
\* subscribe returns its error, run never waits for the signal, and the
\* process exits with a non-zero status.
C5_SubscribeFailureAborts ==
    \A k \in 1..Len(calls) :
        calls[k].result # "ok" =>
            /\ k = Len(calls)
            /\ err = (IF calls[k].result = "timeout" THEN "subscribeTimeout"
                      ELSE "subscribeError")
            /\ pc \in {"return", "main", "exited"}
            /\ \A e \in 1..Len(events) : events[e].op \notin {"SIGINT", "unsubscribe"}
            /\ "unsubscribe" \notin Range(defers)
            /\ pc = "exited" => exitStatus = 1

\* the first rule's subscribe timed out, a later rule with a topic was never
\* subscribed, and the process has exited
C5_Witness ==
    /\ pc = "exited"
    /\ exitStatus = 1
    /\ Len(calls) = 1
    /\ calls[1].result = "timeout"
    /\ \E k \in 1..Len(config.Subscriptions) :
          k > calls[1].rule /\ config.Subscriptions[k].Topic # <<>>

\* C6: when the broker connect times out or fails, no subscribe call is
\* issued, and the D-Bus connection opened before it is closed before the
\* process exits, which it does with a non-zero status.
C6_ConnectFailureClosesSink ==
    err \in {"connectTimeout", "connectError"} =>
        /\ calls = <<>>
        /\ routes = <<>>
        /\ pc \in {"return", "main", "exited"}
        /\ pc \in {"main", "exited"} => dbusConn = "closed" /\ closeCalls = 1
        /\ pc = "exited" => exitStatus = 1

\* the broker connect timed out and the process has exited
C6_Witness ==
    /\ err = "connectTimeout"
    /\ pc = "exited"
    /\ dbusConn = "closed"
    /\ exitStatus = 1

\* the index of the interrupt in `events`, 0 before it arrived
SigIdx ==
    IF \E k \in 1..Len(events) : events[k].op = "SIGINT"
    THEN CHOOSE k \in 1..Len(events) : events[k].op = "SIGINT"
    ELSE 0

\* the teardown the claim C7 asks for: the unsubscribe calls, the broker
\* disconnect, the D-Bus disconnect
ExpectedTeardown ==
    [k \in 1..Len(subscribed) |-> Ev("unsubscribe", subscribed[k])]
    \o <<Ev("disconnectMQTT", <<>>), Ev("disconnectDBus", <<>>)>>

IsPrefix(a, b) == Len(a) <= Len(b) /\ a = SubSeq(b, 1, Len(a))

\* C7: after the interrupt arrives in the running state, teardown is all
\* unsubscribe calls, then the broker disconnect, then the D-Bus disconnect:
\* the reverse of the order D-Bus connect, broker connect, subscribe of setup.
C7_TeardownOrder ==
    SigIdx > 0 =>
        /\ SigIdx >= 3
        /\ events[1] = Ev("connectDBus", <<>>)
        /\ events[2] = Ev("connectMQTT", <<>>)
        /\ \A k \in 3..(SigIdx - 1) : events[k].op = "subscribe"
        /\ IsPrefix(SubSeq(events, SigIdx + 1, Len(events)), ExpectedTeardown)
        /\ pc \in {"main", "exited"} =>
              SubSeq(events, SigIdx + 1, Len(events)) = ExpectedTeardown

\* two topics were subscribed and the process has torn down and exited
C7_Witness ==
    /\ pc = "exited"
    /\ SigIdx > 0
    /\ Len(subscribed) = 2
    /\ exitStatus = 0

\* C8: a disconnectDBus or disconnectMQTT call made when its connection is
\* not open (never connected, or already disconnected) closes nothing and
\* writes no "Disconnected" log line.
C8_DisconnectIdempotent ==
    [][ /\ dbusConn # "open" => closeCalls' = closeCalls /\ dbusLog' = dbusLog
        /\ status \notin {"connected", "reconnecting"} =>
              mqttDisconnects' = mqttDisconnects /\ mqttLog' = mqttLog ]_vars

\* the first configured rule with a topic whose filter matches `topic`, 0
\* when there is none
FirstMatchingRule(topic) ==
    LET hits == {k \in 1..Len(config.Subscriptions) :
                    /\ config.Subscriptions[k].Topic # <<>>
                    /\ match(config.Subscriptions[k].Topic, topic)}
    IN IF hits = {} THEN 0 ELSE CHOOSE k \in hits : \A m \in hits : k <= m

\* C9: an arrived message is handled by one rule only, the first-registered
\* one among those whose filter matches, so that it produces one notification
\* rendered with that rule.
C9_FirstRegisteredWins ==
    msg.live =>
        /\ Len(notified) + Len(pending) <= 1
        /\ \A k \in 1..Len(notified) : notified[k].rule = FirstMatchingRule(msg.topic)

\* C10: the icon passed to notify is the matching rule's icon when it is not
\* empty, and the global default icon when it is.
C10_IconFallback ==
    \A k \in 1..Len(notified) :
        LET n == notified[k]
            s == config.Subscriptions[n.rule]
        IN /\ s.Icon # "" => n.icon = s.Icon
           /\ s.Icon = "" => n.icon = config.Icon

\* one message was notified by a rule with its own icon and by a rule
\* without, under a configured global icon or the default one
C10_Witness ==
    /\ Len(notified) = 2
    /\ \E k \in 1..2 : notified[k].icon = "appointment-soon"
    /\ \E k \in 1..2 : notified[k].icon = "dialog-information"

\* the configured rules with a topic whose filter matches `topic`
MatchingRules(topic) ==
    {k \in 1..Len(config.Subscriptions) :
        /\ config.Subscriptions[k].Topic # <<>>
        /\ match(config.Subscriptions[k].Topic, topic)}

\* C11: an arrived message that matches one configured rule only, a default
\* rule, results in exactly one Notify call once its callback has run, never
\* in more than one; the call carries the title and the body split from the
\* payload at its first newline, replaces_id 0, no actions, no hints and the
\* expiry of 7000 ms.
C11_OneNotifyPerMessage ==
    msg.live =>
        \A r \in 1..Len(config.Subscriptions) :
            LET s == config.Subscriptions[r]
                p == msg.payload
            IN (MatchingRules(msg.topic) = {r} /\ s.Title = <<>> /\ s.Body = <<>>) =>
                  /\ Len(notified) <= 1
                  /\ pending = <<>> => Len(notified) = 1
                  /\ \A k \in 1..Len(notified) :
                        LET n == notified[k]
                        IN /\ n.rule = r
                           /\ Len(n.title) + Len(n.body) \in {Len(p), Len(p) - 1}
                           /\ n.title = SubSeq(p, 1, Len(n.title))
                           /\ n.body = SubSeq(p, Len(p) - Len(n.body) + 1, Len(p))
                           /\ NL \notin Range(n.title)
                           /\ Len(n.title) < Len(p) => p[Len(n.title) + 1] = NL
                           /\ n.replacesId = 0
                           /\ n.actions = <<>>
                           /\ n.hints = <<>>
                           /\ n.expire = 7000

\* the only rule of the configuration, a default rule on a wildcard filter,
\* has notified a message with a two-line payload
C11_Witness ==
    /\ Len(config.Subscriptions) = 1
    /\ config.Subscriptions[1].Topic = <<"a", "+">>
    /\ msg.topic = <<"a", "c">>
    /\ msg.payload = <<"a", NL, "a">>
    /\ pending = <<>>
    /\ Len(notified) = 1
    /\ notified[1].title = <<"a">>
    /\ notified[1].body = <<"a">>
    /\ notified[1].expire = 7000

\* a callback ran in this step and its template or its Notify call failed
FailingTriggerStep ==
    /\ pending # <<>>
    /\ pending' = Tail(pending)
    /\ Len(notified') = Len(notified) + 1
    /\ notified'[Len(notified')].failed \/ notified'[Len(notified')].err

\* C12: a template failure or a failed Notify call for one message leaves
\* the process running, the connections, the broker's session and the active
\* subscriptions as they were, and every message that arrives after such a
\* failure is still rendered and passed to notify by each callback the
\* router dispatches it to.
C12_FailuresAreLocal ==
    /\ [][FailingTriggerStep =>
            /\ pc' = pc
            /\ exitStatus' = exitStatus
            /\ err' = err
            /\ dbusConn' = dbusConn
            /\ mqttClient' = mqttClient
            /\ status' = status
            /\ brokerSubs' = brokerSubs
            /\ routes' = routes
            /\ subscribed' = subscribed]_vars
    /\ [](failedBefore /\ msg.live =>
            /\ dispatched >= 1
            /\ Len(notified) + Len(pending) = dispatched
            /\ \A k \in 1..Len(notified) :
                  LET n == notified[k]
                      r == createTitleAndBody(config.Subscriptions[n.rule], msg.payload)
                  IN n.title = r.title /\ n.body = r.body)

\* after a message whose template or Notify call failed, a later message was
\* notified without error while run waits for the signal
C12_Witness ==
    /\ failedBefore
    /\ pc = "wait"
    /\ msg.live
    /\ pending = <<>>
    /\ Len(notified) >= 1
    /\ \A k \in 1..Len(notified) : ~notified[k].failed /\ ~notified[k].err

\* C13: the title template and the body template of a rule are parsed at
\* most once: the callback of a rule whose templates were parsed for an
\* earlier message calls template(), and with it t.Parse, no more.
C13_TemplatesParsedOnce ==
    [][\A which \in {"Title", "Body"} :
          (/\ pending # <<>>
           /\ pending' = Tail(pending)
           /\ <<Head(pending), which>> \in parsed) => tplEvals' = tplEvals]_vars

\* C14: a template reads the segments of the arrived topic by index: for a
\* message on home/kitchen/temp, a title template that references segment 1
\* renders "kitchen", and for one that references segment 5, beyond the
\* topic's segments, no notification is produced.
C14_TopicSegmentByIndex ==
    (msg.live /\ msg.topic = <<"home", "kitchen", "temp">>) =>
        \A k \in 1..Len(notified) :
            LET n == notified[k]
                s == config.Subscriptions[n.rule]
            IN /\ s.Title = <<SEG1>> => n.title = <<"kitchen">> /\ ~n.failed
               /\ s.Title # <<SEG5>>

\* C15: a rule with the title template "{{.}}" and an empty body template
\* renders every payload verbatim as the title, newlines included, and the
\* empty string as the body.
C15_DotTitleIsPayload ==
    \A k \in 1..Len(notified) :
        LET n == notified[k]
            s == config.Subscriptions[n.rule]
        IN (s.Title = <<DOT>> /\ s.Body = <<>>) =>
              /\ n.title = msg.payload
              /\ n.body = <<>>
              /\ ~n.failed

\* such a rule has rendered a payload of two lines
C15_Witness ==
    /\ Len(notified) = 1
    /\ config.Subscriptions[1].Title = <<DOT>>
    /\ config.Subscriptions[1].Body = <<>>
    /\ msg.payload = <<"a", NL, "a">>
    /\ notified[1].title = <<"a", NL, "a">>
    /\ notified[1].body = <<>>

\* the number of rules the subscribe loop has dealt with
RulesDone ==
    IF calls # <<>> /\ calls[Len(calls)].result # "ok" THEN i ELSE i - 1

\* C16: the Subscribe calls issued are those for the configured rules with a
\* non-empty topic among the rules the loop has dealt with, one call per
\* rule, in the order of the configuration; a rule with an empty topic
\* causes no call, no entry of the active subscription list, no route and no
\* subscription at the broker, and subscribe returns an error only for a
\* call that failed.
C16_SubscribeValidRulesInOrder ==
    /\ RulesDone <= Len(config.Subscriptions)
    /\ {calls[k].rule : k \in 1..Len(calls)} =
          {r \in 1..RulesDone : config.Subscriptions[r].Topic # <<>>}
    /\ \A k \in 1..Len(calls) :
          /\ calls[k].topic = config.Subscriptions[calls[k].rule].Topic
          /\ calls[k].topic # <<>>
          /\ \A m \in 1..(k - 1) : calls[m].rule < calls[k].rule
    /\ <<>> \notin Range(subscribed)
    /\ <<>> \notin brokerSubs
    /\ \A k \in 1..Len(routes) : routes[k].topic # <<>>
    /\ err \in {"subscribeTimeout", "subscribeError"} =>
          calls # <<>> /\ calls[Len(calls)].result # "ok"
    /\ pc = "wait" => RulesDone = Len(config.Subscriptions)

\* a configuration of a rule without topic followed by a rule with one: one
\* Subscribe call was issued, for the second rule, and run waits for the
\* signal
C16_Witness ==
    /\ pc = "wait"
    /\ Len(config.Subscriptions) = 2
    /\ config.Subscriptions[1].Topic = <<>>
    /\ Len(calls) = 1
    /\ calls[1].rule = 2
    /\ subscribed = <<config.Subscriptions[2].Topic>>

\* a setup step failed: the D-Bus connect, the broker connect or a subscribe
SetupFailed ==
    err \in {"dbus", "connectTimeout", "connectError",
             "subscribeTimeout", "subscribeError"}

\* C17: once the interrupt is received while run waits for it, teardown
\* completes and the process exits with status 0, whatever the unsubscribe
\* and disconnect steps meet; after a failed setup step the process exits
\* with a non-zero status.
C17_TeardownExits ==
    /\ [](pc = "exited" /\ SigIdx > 0 => exitStatus = 0)
    /\ [](pc = "exited" /\ SetupFailed => exitStatus > 0)
    /\ (SigIdx > 0 \/ SetupFailed) ~> (pc = "exited")

\* the process has exited with status 0 after an interrupt and a teardown
\* that unsubscribed a topic the broker no longer held, the client having
\* reconnected in between
C17_Witness ==
    /\ pc = "exited"
    /\ exitStatus = 0
    /\ SigIdx > 0
    /\ subscribed # <<>>
    /\ reconnected
    /\ events[Len(events)].op = "disconnectDBus"

\* the configuration file asks for TLS
FileSecure == "Secure" \in DOMAIN cfgFile /\ cfgFile.Secure

\* C18: connectMQTT builds the broker URL with the TLS scheme when the
\* configuration's `secure` flag is set and with the plain scheme when it is
\* not, and hands the configured user name and password to the client when
\* they are not empty.
C18_ConnectOptions ==
    mqttClient = "created" =>
        /\ opts.scheme = (IF FileSecure THEN "ssl" ELSE "tcp")
        /\ config.User # "" => opts.username = config.User
        /\ config.Pass # "" => opts.password = config.Pass

\* the defaults the claim C19 lists
ListedDefaults ==
    [Host |-> "localhost", Port |-> 1883, Timeout |-> 5,
     Icon |-> "dialog-information", Subscriptions |-> <<>>]

\* C19: once loadConfig has returned without error, every field the
\* configuration file does not name holds its default (host localhost, port
\* 1883, timeout 5, icon dialog-information, no subscriptions), every field
\* it names holds the file's value, and without a file the configuration is
\* the defaults.
C19_DefaultsThenOverlay ==
    (pc # "loadConfig" /\ err # "config") =>
        /\ \A f \in DOMAIN ListedDefaults :
              IF f \in DOMAIN cfgFile THEN config[f] = cfgFile[f]
              ELSE config[f] = ListedDefaults[f]
        /\ DOMAIN cfgFile = {} =>
              /\ \A f \in DOMAIN ListedDefaults : config[f] = ListedDefaults[f]
              /\ config.User = ""
              /\ config.Pass = ""

\* loadConfig has read a file that names the host and the timeout only
C19_Witness ==
    /\ pc = "connectDBus"
    /\ err = "none"
    /\ DOMAIN cfgFile = {"Host", "Timeout"}
    /\ config.Host = "box"
    /\ config.Timeout = 1
    /\ config.Port = 1883
    /\ config.Icon = "dialog-information"
    /\ config.Subscriptions = <<>>

\* a step of the handling of an arrived message: the router takes the
\* message, or the callback of a rule runs
HandlingStep ==
    \/ msg' # msg
    \/ pending' # pending
    \/ notified' # notified
    \/ tplEvals' # tplEvals

\* C20: the handling of an arrived message leaves the global configuration,
\* with the topic, title, body and icon of every rule, and the active
\* subscription list as they were.
C20_RulesImmutable ==
    [][HandlingStep =>
          /\ config' = config
          /\ \A k \in 1..Len(config.Subscriptions) :
                config'.Subscriptions[k] = config.Subscriptions[k]
          /\ subscribed' = subscribed]_vars

\* the callback of a rule with an icon of its own has run, and the global
\* icon is still the default
C20_Witness ==
    /\ msg.live
    /\ pending = <<>>
    /\ Len(notified) = 1
    /\ config.Subscriptions[notified[1].rule].Icon = "appointment-soon"
    /\ notified[1].icon = "appointment-soon"
    /\ config.Icon = "dialog-information"
    /\ subscribed # <<>>

\* C21: on every exit path taken after a subscribe call succeeded, the path
\* on which a later subscribe call fails or times out included, every topic
\* of the active subscription list has received an unsubscribe call before
\* the broker is disconnected.
C21_UnsubscribeOnEveryExit ==
    \A d \in 1..Len(events) :
        events[d].op = "disconnectMQTT" =>
            \A k \in 1..Len(subscribed) :
                \E e \in 1..(d - 1) : events[e] = Ev("unsubscribe", subscribed[k])

\* C22: every Notify call is made while the D-Bus connection is open; none
\* is made after disconnectDBus has closed it, however the callbacks of the
\* client interleave with the teardown.
C22_NoNotifyAfterClose ==
    \A k \in 1..Len(notified) : notified[k].conn = "open"

\* C23: no Notify call is made before subscribe has returned without error,
\* that is while later rules are still being subscribed or in a startup that
\* aborts: a Notify call for the current message means that run has reached
\* its wait for the signal.
C23_NoNotifyBeforeSubscribed ==
    notified # <<>> => (pc = "wait" \/ SigIdx > 0)

\* the topics of the configured rules with a topic, in configuration order
ValidTopics ==
    LET valid == SelectSeq(config.Subscriptions, LAMBDA s : s.Topic # <<>>)
    IN [k \in 1..Len(valid) |-> valid[k].Topic]

\* the topics of the Unsubscribe calls, in the order of the calls
UnsubscribedTopics ==
    LET un == SelectSeq(events, LAMBDA e : e.op = "unsubscribe")
    IN [k \in 1..Len(un) |-> un[k].topic]

\* C24: the active subscription list is the topics of the first k configured
\* rules with a topic, in configuration order, for some k; the Unsubscribe
\* calls of the shutdown go through that list in its order, one call per
\* entry and none for another topic, and have covered all of it when run
\* has returned after the interrupt.
C24_SubscribedIsPrefixOfValid ==
    /\ IsPrefix(subscribed, ValidTopics)
    /\ IsPrefix(UnsubscribedTopics, subscribed)
    /\ UnsubscribedTopics # <<>> => SigIdx > 0
    /\ (SigIdx > 0 /\ pc \in {"main", "exited"}) => UnsubscribedTopics = subscribed

\* a configuration of a rule without topic and a rule with one, whose topic
\* was subscribed and, after the interrupt, unsubscribed by one call
C24_Witness ==
    /\ pc = "exited"
    /\ SigIdx > 0
    /\ Len(config.Subscriptions) = 2
    /\ \E k \in 1..2 : config.Subscriptions[k].Topic = <<>>
    /\ Len(subscribed) = 1
    /\ UnsubscribedTopics = subscribed

====
